---------------------------- MODULE Spec2Model ----------------------------
(***************************************************************************)
(* Model of va_coupling_calculator.py: the VACouplingApp class (stroke     *)
(* volume, elastances, optimal wedge pressure, venous congestion penalty,  *)
(* efficiency, the heart-rate sweep) and the arg-max main() takes over the *)
(* sweep table.                                                            *)
(*                                                                         *)
(* The program computes in IEEE-754 binary64 (NumPy float64 scalars).      *)
(* Numbers are modelled as binary floating-point values with the exponent  *)
(* range of binary64 (overflow to inf above 2^1024, underflow to 0 below   *)
(* 2^-1075), with inf and nan, with round-to-nearest-even, and with a      *)
(* mantissa of MantBits bits instead of 53.  Signed zeros are not          *)
(* distinguished and subnormals keep full mantissa precision.              *)
(***************************************************************************)
EXTENDS Integers, Sequences, FiniteSets

\* Mantissa width of the modelled floating-point format (binary64 has 53).
MantBits == 13

\* Exponent limits of binary64: the largest finite value is below 2^1024,
\* the smallest positive value is 2^-1074.
MaxExp == 1024
MinExp == 0 - 1074

Pow2(n) == 2 ^ n

Abs(n) == IF n < 0 THEN 0 - n ELSE n

Sgn(n) == IF n < 0 THEN 0 - 1 ELSE 1

\* Number of bits of a positive integer below 2^30.
BitLen(n) == CHOOSE L \in 1..30 : Pow2(L - 1) <= n /\ n < Pow2(L)

NaN == [k |-> "nan", m |-> 0, e |-> 0]

Inf(s) == [k |-> "inf", m |-> s, e |-> 0]

Zero == [k |-> "fin", m |-> 0, e |-> 0]

IsNaN(x) == x.k = "nan"

IsInf(x) == x.k = "inf"

IsFin(x) == x.k = "fin"

IsZero(x) == x.k = "fin" /\ x.m = 0

\* n / 2^d rounded to the nearest integer, ties to even; sticky says that
\* the exact value lies strictly above n.
RoundShift(n, d, sticky) ==
    LET q    == n \div Pow2(d)
        r    == n % Pow2(d)
        half == Pow2(d - 1)
    IN  IF r > half \/ (r = half /\ sticky) \/ (r = half /\ q % 2 = 1)
        THEN q + 1 ELSE q

\* The float nearest to s * n * 2^e (n a natural number below 2^30):
\* the mantissa is normalised to MantBits bits, a value of 2^1024 or more
\* becomes inf and a value below half the smallest subnormal becomes 0.
Normalise(s, n, e, sticky) ==
    IF n = 0 THEN Zero
    ELSE LET L  == BitLen(n)
             d  == L - MantBits
             m0 == IF d > 0 THEN RoundShift(n, d, sticky) ELSE n * Pow2(0 - d)
             \* rounding up may carry into one more bit
             c  == IF m0 = Pow2(MantBits) THEN 1 ELSE 0
             m  == IF c = 1 THEN Pow2(MantBits - 1) ELSE m0
             ex == e + d + c
             lead == ex + MantBits - 1
         IN  IF lead >= MaxExp THEN Inf(s)
             ELSE IF lead < MinExp - 1 THEN Zero
             ELSE IF lead = MinExp - 1
                  THEN (IF m > Pow2(MantBits - 1)
                        THEN [k |-> "fin", m |-> s * Pow2(MantBits - 1),
                              e |-> MinExp - MantBits + 1]
                        ELSE Zero)
             ELSE [k |-> "fin", m |-> s * m, e |-> ex]

\* int -> float64
FromInt(n) == Normalise(Sgn(n), Abs(n), 0, FALSE)

Neg(x) == IF IsNaN(x) THEN NaN
          ELSE IF IsInf(x) THEN Inf(0 - x.m)
          ELSE [x EXCEPT !.m = 0 - x.m]

SignOf(x) == IF x.m < 0 THEN 0 - 1 ELSE 1

\* float64 multiplication
Mul(x, y) ==
    IF IsNaN(x) \/ IsNaN(y) THEN NaN
    ELSE IF IsInf(x) \/ IsInf(y)
         THEN (IF IsZero(x) \/ IsZero(y) THEN NaN ELSE Inf(SignOf(x) * SignOf(y)))
    ELSE Normalise(SignOf(x) * SignOf(y), Abs(x.m) * Abs(y.m), x.e + y.e, FALSE)

\* float64 division as NumPy scalars divide: a zero divisor raises nothing,
\* it gives nan for 0/0 and a signed inf otherwise (with a RuntimeWarning).
Div(x, y) ==
    IF IsNaN(x) \/ IsNaN(y) THEN NaN
    ELSE IF IsInf(x) THEN (IF IsInf(y) THEN NaN ELSE Inf(SignOf(x) * SignOf(y)))
    ELSE IF IsInf(y) THEN Zero
    ELSE IF IsZero(y) THEN (IF IsZero(x) THEN NaN ELSE Inf(SignOf(x)))
    ELSE IF IsZero(x) THEN Zero
    ELSE LET n == Abs(x.m) * Pow2(MantBits + 1)
             d == Abs(y.m)
         IN  Normalise(SignOf(x) * SignOf(y), n \div d,
                       x.e - y.e - (MantBits + 1), n % d # 0)

\* float64 addition
Add(x, y) ==
    IF IsNaN(x) \/ IsNaN(y) THEN NaN
    ELSE IF IsInf(x) THEN (IF IsInf(y) /\ y.m # x.m THEN NaN ELSE x)
    ELSE IF IsInf(y) THEN y
    ELSE IF IsZero(x) THEN y
    ELSE IF IsZero(y) THEN x
    ELSE LET hi == IF x.e >= y.e THEN x ELSE y
             lo == IF x.e >= y.e THEN y ELSE x
             df == hi.e - lo.e
         IN  IF df > MantBits + 2 THEN hi
             ELSE LET n == hi.m * Pow2(df) + lo.m
                  IN  Normalise(Sgn(n), Abs(n), lo.e, FALSE)

Sub(x, y) == Add(x, Neg(y))

\* x < y on float64: false when either side is nan.
Lt(x, y) ==
    IF IsNaN(x) \/ IsNaN(y) THEN FALSE
    ELSE IF IsInf(x) THEN x.m < 0 /\ ~(IsInf(y) /\ y.m < 0)
    ELSE IF IsInf(y) THEN y.m > 0
    ELSE IF IsZero(x) THEN y.m > 0
    ELSE IF IsZero(y) THEN x.m < 0
    ELSE IF SignOf(x) # SignOf(y) THEN x.m < 0
    ELSE IF x.e = y.e THEN x.m < y.m
    ELSE IF x.m > 0 THEN x.e < y.e ELSE x.e > y.e

Le(x, y) == ~IsNaN(x) /\ ~IsNaN(y) /\ ~Lt(y, x)

Dec(n, d) == Div(FromInt(n), FromInt(d))

One == FromInt(1)

\* Arguments beyond which binary64 exp overflows to inf (ln of the largest
\* finite value, 709.78) and underflows to 0 (ln 2^-1075, -745.13).
ExpMaxArg == Dec(70978, 100)
ExpMinArg == Neg(Dec(74513, 100))

\* Fixed-point widths used inside Exp: the argument with ArgFrac fraction
\* bits, the series with SerFrac fraction bits.
ArgFrac == 20
SerFrac == MantBits + 1

\* ln 2 with ArgFrac fraction bits.
Ln2Fix == 726817

\* Number of Taylor terms after the constant one.
ExpTerms == 9

\* sum of r^n / n! for n = i .. ExpTerms, term being r^(i-1) / (i-1)!
RECURSIVE ExpSeries(_, _, _)
ExpSeries(term, i, r) ==
    IF i > ExpTerms \/ term = 0 THEN term
    ELSE term + ExpSeries((term * r) \div (i * Pow2(SerFrac)), i + 1, r)

\* np.exp on a float64 scalar: exp(x) = 2^k * exp(r) with x = k ln 2 + r,
\* 0 <= r < ln 2.  Overflow gives inf and underflow gives 0 (a
\* RuntimeWarning at most, never an exception); exp(0) is exactly 1.
Exp(x) ==
    IF IsNaN(x) THEN NaN
    ELSE IF IsInf(x) THEN (IF x.m > 0 THEN x ELSE Zero)
    ELSE IF IsZero(x) THEN One
    ELSE IF Lt(ExpMaxArg, x) THEN Inf(1)
    ELSE IF Lt(x, ExpMinArg) THEN Zero
    ELSE LET sh == x.e + ArgFrac
             X  == IF sh >= 0 THEN x.m * Pow2(sh)
                   ELSE IF sh < 0 - 30 THEN (IF x.m < 0 THEN 0 - 1 ELSE 0)
                   ELSE x.m \div Pow2(0 - sh)
             k  == X \div Ln2Fix
             r  == (X % Ln2Fix) \div Pow2(ArgFrac - SerFrac)
         IN  Normalise(1, ExpSeries(Pow2(SerFrac), 1, r), k - SerFrac, TRUE)

\* np.maximum(a, b) on scalars: nan if either is nan, else the larger.
Maximum(a, b) == IF IsNaN(a) \/ IsNaN(b) THEN NaN ELSE IF Lt(a, b) THEN b ELSE a

\* Python's builtin min(a, b) and max(a, b): the first argument unless the
\* second compares strictly smaller (larger); a nan never replaces it.
PyMin(a, b) == IF Lt(b, a) THEN b ELSE a

PyMax(a, b) == IF Lt(a, b) THEN b ELSE a

\* x ** 2
Square(x) == Mul(x, x)

-----------------------------------------------------------------------------
\* The literals of the source.
base_edv == FromInt(150)
L60   == FromInt(60)
L1000 == FromInt(1000)
L80   == FromInt(80)
L800  == FromInt(800)
L75   == FromInt(75)
L30   == FromInt(30)
L12   == FromInt(12)
L5    == FromInt(5)
L25   == FromInt(25)
L100  == FromInt(100)
L2    == FromInt(2)
L0_25   == Dec(25, 100)
L0_0003 == Dec(3, 10000)
L0_0002 == Dec(2, 10000)
L0_9  == Dec(9, 10)
L0_55 == Dec(55, 100)
L0_4  == Dec(4, 10)
L0_3  == Dec(3, 10)
L0_2  == Dec(2, 10)
L0_1  == Dec(1, 10)
L0_8  == Dec(8, 10)
L0_5  == Dec(5, 10)
L1_5  == Dec(15, 10)

-----------------------------------------------------------------------------
None == [k |-> "none", m |-> 0, e |-> 0]

\* calculate_sv with the exponential of line 13 left out.
calculate_sv_no_exp(hr, svr, ef) ==
    LET filling_effect   == Mul(Neg(L0_25), Maximum(Zero, Div(Sub(hr, L60), L60)))
        afterload_effect == Exp(Mul(Neg(L0_0003), Sub(svr, L800)))
        edv == Mul(Mul(base_edv, filling_effect), afterload_effect)
    IN  Mul(edv, ef)

\* VACouplingApp.calculate_sv
calculate_sv(hr, svr, ef) ==
    LET filling_effect   == Exp(Mul(Neg(L0_25), Maximum(Zero, Div(Sub(hr, L60), L60))))
        afterload_effect == Exp(Mul(Neg(L0_0003), Sub(svr, L800)))
        edv == Mul(Mul(base_edv, filling_effect), afterload_effect)
    IN  Mul(edv, ef)

\* VACouplingApp.calculate_elastances after its call of calculate_sv returned
\* sv (lines 20-25).  Every division is between NumPy scalars, so a zero
\* stroke volume raises nothing.
calculate_elastances(sv, hr, svr, ef) ==
    LET co == Div(Mul(sv, hr), L1000)
        map_pressure == Div(Mul(co, svr), L80)
        base_ees == Div(Mul(L2, ef), L0_55)
    IN  [ea  |-> Div(Mul(map_pressure, L0_9), sv),
         ees |-> Mul(base_ees, Exp(Mul(Neg(L0_0002), Sub(svr, L800)))),
         map_pressure |-> map_pressure]

\* Line 115: ea/ees, again between NumPy scalars.
CouplingRatio(ea, ees) == Div(ea, ees)

\* Line 37 raises ZeroDivisionError when hr is a Python number equal to 0;
\* when hr is a NumPy scalar (hrNp), as in the sweep, 60/hr is inf.
DiastolicTimeRaises(hr, hrNp) == ~hrNp /\ IsZero(hr)

\* The product of lines 41-59, before the clamp.
RawWedge(hr, svr, ef) ==
    LET ef_factor  == Sub(One, ef)
        svr_factor == Sub(Div(svr, L800), One)
        hr_factor  == Sub(One, Exp(Mul(Neg(L0_1), Sub(hr, L75))))
    IN  Mul(Mul(Mul(L12, Sub(One, Mul(L0_4, ef_factor))),
                Add(One, Mul(L0_3, svr_factor))),
            Add(One, Mul(L0_2, hr_factor)))

\* The clamp without its upper bound, and without its lower bound.
ClampNoUpper(optimal_wedge) == PyMax(L5, optimal_wedge)

ClampNoLower(optimal_wedge) == PyMin(L25, optimal_wedge)

\* The clamp of line 63.
Clamp(optimal_wedge) == PyMax(L5, PyMin(L25, optimal_wedge))

\* Lines 79-81 of calculate_venous_congestion.
OverallSensitivity(svr, ef) == Mul(Sub(L1_5, ef), Div(svr, L800))

\* The closure congestion_penalty of calculate_venous_congestion, called on
\* wedge with the optimal_wedge and overall_sensitivity it captured.
congestion_penalty(wedge, optimal_wedge, overall_sensitivity) ==
    LET deviation == Sub(wedge, optimal_wedge)
    IN  IF Lt(deviation, Zero)
        THEN [deviation |-> deviation, branch |-> "quadratic",
              val |-> Mul(Mul(Square(deviation), L0_3), overall_sensitivity)]
        ELSE [deviation |-> deviation, branch |-> "exponential",
              val |-> Mul(Sub(Exp(deviation), One), overall_sensitivity)]

\* The closure called on a fixed reference pressure instead.
PenaltyArgumentFixed(optimal_wedge) == L12

\* The wedge pressure calculate_efficiency hands to the closure (line 121).
PenaltyArgument(optimal_wedge) == optimal_wedge

\* The Gaussian without the minus sign of its exponent.
MechanicalEfficiencyNoMinus(coupling_ratio) ==
    Exp(Square(Div(Sub(coupling_ratio, L0_8), L0_4)))

\* Line 124: the Gaussian of the coupling ratio around 0.8.
MechanicalEfficiency(coupling_ratio) ==
    Exp(Neg(Square(Div(Sub(coupling_ratio, L0_8), L0_4))))

\* Line 127: the Gaussian of the heart rate around 75.
DiastolicEfficiency(hr) ==
    Exp(Mul(Neg(L0_5), Square(Div(Sub(hr, L75), L30))))

\* Line 130.
Efficiency(mechanical_efficiency, diastolic_efficiency, penalty) ==
    Mul(Mul(Mul(mechanical_efficiency, diastolic_efficiency),
            Sub(One, penalty)), L100)

\* Line 132: the cardiac output of the returned tuple.
CardiacOutput(sv, hr) == Div(Mul(sv, hr), L1000)

-----------------------------------------------------------------------------
\* The sweep grid of generate_data: np.linspace(40, 120, 81).
HrMin == 40
HrMax == 120
Samples == 81

\* The grid with endpoint=False: step = (stop - start) / num.
LinspaceNoEndpoint(start, stop, num) ==
    LET step == Div(Sub(stop, start), FromInt(num))
    IN  [j \in 1..num |-> Add(Mul(FromInt(j - 1), step), start)]

\* np.linspace(start, stop, num): start + j * step for j = 0 .. num-1 with
\* step = (stop - start) / (num - 1), the last point set to stop itself.
Linspace(start, stop, num) ==
    LET step == Div(Sub(stop, start), FromInt(num - 1))
    IN  [j \in 1..num |->
            IF j = num THEN stop ELSE Add(Mul(FromInt(j - 1), step), start)]

hrs == Linspace(FromInt(HrMin), FromInt(HrMax), Samples)

\* The dict generate_data appends for one heart rate (lines 139-147).
Row(f) ==
    [hr |-> f.hr, efficiency |-> f.efficiency, coupling_ratio |-> f.coupling_ratio,
     sv |-> f.sv, co |-> f.co, optimal_wedge |-> f.optimal_wedge]

\* data = [] at the start of generate_data (line 137).
FreshData == << >>

\* Positions of a column that hold a number.
NotNaN(col) == { j \in 1..Len(col) : ~IsNaN(col[j]) }

\* An arg-max that keeps the last position holding the maximum.
idxmax_last(col) ==
    IF NotNaN(col) = {} THEN 0
    ELSE CHOOSE j \in NotNaN(col) :
            \A n \in NotNaN(col) : /\ n < j => ~Lt(col[j], col[n])
                                   /\ n > j => Lt(col[n], col[j])

\* Series.idxmax() on the efficiency column: nan entries are skipped and
\* the first position holding the maximum is returned (every earlier entry
\* is smaller, no later entry is larger); 0 stands for the error raised
\* when every entry is nan.
idxmax(col) ==
    IF NotNaN(col) = {} THEN 0
    ELSE CHOOSE j \in NotNaN(col) :
            \A n \in NotNaN(col) : /\ n < j => Lt(col[n], col[j])
                                   /\ n > j => ~Lt(col[j], col[n])

-----------------------------------------------------------------------------
\* Bounds of the model: how many entries of each input table are used, and
\* how many sweeps are run.
NumEf == 4
NumSvr == 2
NumCallHr == 5
NumCallSvr == 6
NumCallEf == 6
MaxSweeps == 2

\* Ejection fractions (in hundredths) and resistances an instance is built
\* with; main() takes them from sliders over 0.05..0.75 and 500..2000, the
\* constructor itself accepts anything.
EfTable  == << 35, 5, 1, 0, 75 >>
SvrTable == << 800, 2000, 500 >>

\* Arguments of direct calls of the methods.
CallHrTable  == << 0, 40, 75, 120, 60, 1 >>
CallSvrTable == << 0, 500, 800, 2000, 4000, 3000000, 1200 >>
CallEfTable  == << 0, 5, 35, 100, 150, 75, 1 >>

EfInputs  == { Dec(EfTable[j], 100) : j \in 1..NumEf }
SvrInputs == { FromInt(SvrTable[j]) : j \in 1..NumSvr }
CallHrInputs  == { FromInt(CallHrTable[j]) : j \in 1..NumCallHr }
CallSvrInputs == { FromInt(CallSvrTable[j]) : j \in 1..NumCallSvr }
CallEfInputs  == { Dec(CallEfTable[j], 100) : j \in 1..NumCallEf }

\* The arguments and locals of one call of a method of VACouplingApp;
\* None marks a local not assigned yet.
Frame(hr, hrNp, s, e) ==
    [hr |-> hr, hrNp |-> hrNp, svr |-> s, ef |-> e,
     sv |-> None, ea |-> None, ees |-> None, map_pressure |-> None,
     coupling_ratio |-> None, raw |-> None, optimal_wedge |-> None,
     overall_sensitivity |-> None, wedge_arg |-> None, deviation |-> None,
     branch |-> "none", congestion_penalty |-> None,
     mechanical_efficiency |-> None, diastolic_efficiency |-> None,
     efficiency |-> None, co |-> None]

NoFrame == Frame(None, TRUE, None, None)

NoRow == Row(NoFrame)

NoPrev == [ef |-> None, svr |-> None, data |-> << >>, optimal_row |-> NoRow]

NoHist == [svr |-> None, val |-> None, raw |-> None]

VARIABLES
    ef, svr,       \* self.ef, self.svr
    pc,            \* "idle" (no instance), "ready", "loop", "returned", "done", "raised"
    data,          \* the list generate_data fills, then the DataFrame
    optimal_row,   \* main's optimal_row
    located,       \* "none", "ok", or "error" when idxmax / loc raised
    sweeps,        \* number of generate_data calls started
    prev,          \* the previous sweep with the same ef, svr: its table and optimum
    entry,         \* the method the caller invoked
    fr,            \* arguments and locals of the running method call
    fpc,           \* position in it: "idle", the next step, "returned", "raised"
    hist           \* an earlier calculate_optimal_wedge_pressure call

appVars == <<ef, svr, pc, data, optimal_row, located, sweeps, prev>>

vars == <<ef, svr, pc, data, optimal_row, located, sweeps, prev, entry, fr, fpc, hist>>

-----------------------------------------------------------------------------
\* The steps of a method call.

\* calculate_sv, lines 12-16.
StepSv ==
    /\ fpc = "sv"
    /\ fr' = [fr EXCEPT !.sv = calculate_sv(fr.hr, fr.svr, fr.ef)]
    /\ fpc' = IF entry = "calculate_sv" THEN "returned" ELSE "elastances"
    /\ UNCHANGED <<appVars, entry, hist>>

\* calculate_elastances, lines 20-25.
StepElastances ==
    /\ fpc = "elastances"
    /\ LET el == calculate_elastances(fr.sv, fr.hr, fr.svr, fr.ef)
       IN  fr' = [fr EXCEPT !.ea = el.ea, !.ees = el.ees,
                            !.map_pressure = el.map_pressure]
    /\ fpc' = IF entry = "calculate_elastances" THEN "returned" ELSE "coupling"
    /\ UNCHANGED <<appVars, entry, hist>>

\* calculate_efficiency, line 115.
StepCoupling ==
    /\ fpc = "coupling"
    /\ fr' = [fr EXCEPT !.coupling_ratio = CouplingRatio(fr.ea, fr.ees)]
    /\ fpc' = "wedge"
    /\ UNCHANGED <<appVars, entry, hist>>

\* calculate_optimal_wedge_pressure, lines 37-63: an exception leaves every
\* caller up to the one that invoked the method.
StepWedge ==
    /\ fpc = "wedge"
    /\ IF DiastolicTimeRaises(fr.hr, fr.hrNp)
       THEN fr' = fr /\ fpc' = "raised"
       ELSE /\ fr' = [fr EXCEPT !.raw = RawWedge(fr.hr, fr.svr, fr.ef),
                                !.optimal_wedge = Clamp(RawWedge(fr.hr, fr.svr, fr.ef))]
            /\ fpc' = IF entry = "calculate_optimal_wedge_pressure"
                      THEN "returned" ELSE "congestion"
    /\ UNCHANGED <<appVars, entry, hist>>

\* calculate_venous_congestion, lines 79-81 and 109, then line 121 of
\* calculate_efficiency calling the closure it returned.
StepCongestion ==
    /\ fpc = "congestion"
    /\ LET sens == OverallSensitivity(fr.svr, fr.ef)
           arg  == PenaltyArgument(fr.optimal_wedge)
           cp   == congestion_penalty(arg, fr.optimal_wedge, sens)
       IN  fr' = [fr EXCEPT !.overall_sensitivity = sens, !.wedge_arg = arg,
                            !.deviation = cp.deviation, !.branch = cp.branch,
                            !.congestion_penalty = cp.val]
    /\ fpc' = "efficiency"
    /\ UNCHANGED <<appVars, entry, hist>>

\* calculate_efficiency, lines 124-132.
StepEfficiency ==
    /\ fpc = "efficiency"
    /\ LET me == MechanicalEfficiency(fr.coupling_ratio)
           de == DiastolicEfficiency(fr.hr)
       IN  fr' = [fr EXCEPT !.mechanical_efficiency = me,
                            !.diastolic_efficiency = de,
                            !.efficiency = Efficiency(me, de, fr.congestion_penalty),
                            !.co = CardiacOutput(fr.sv, fr.hr)]
    /\ fpc' = "returned"
    /\ UNCHANGED <<appVars, entry, hist>>

Steps ==
    \/ StepSv
    \/ StepElastances
    \/ StepCoupling
    \/ StepWedge
    \/ StepCongestion
    \/ StepEfficiency

-----------------------------------------------------------------------------
\* The instance, its sweeps and main's arg-max.

\* VACouplingApp(ef, svr): a first instance, or a new one after a sweep.
Construct(e, s) ==
    /\ pc \in {"idle", "done"}
    /\ sweeps < MaxSweeps
    /\ ef' = e /\ svr' = s
    /\ pc' = "ready"
    /\ prev' = IF pc = "done" /\ e = ef /\ s = svr
               THEN [ef |-> ef, svr |-> svr, data |-> data, optimal_row |-> optimal_row]
               ELSE NoPrev
    /\ data' = << >> /\ optimal_row' = NoRow /\ located' = "none"
    /\ UNCHANGED <<sweeps, entry, fr, fpc, hist>>

\* generate_data, lines 135-137: the grid and the empty list.
GenerateDataStart ==
    /\ pc \in {"ready", "done"}
    /\ sweeps < MaxSweeps
    /\ prev' = IF pc = "done"
               THEN [ef |-> ef, svr |-> svr, data |-> data, optimal_row |-> optimal_row]
               ELSE prev
    /\ data' = FreshData
    /\ optimal_row' = NoRow /\ located' = "none"
    /\ sweeps' = sweeps + 1
    /\ pc' = "loop"
    /\ UNCHANGED <<ef, svr, entry, fr, fpc, hist>>

\* A sweep whose resistance drifts with the number of sweeps run so far.
LoopArgsDrifting == Frame(hrs[Len(data) + 1], TRUE, Mul(svr, FromInt(sweeps)), ef)

\* The arguments of line 139: the next grid point, self.svr, self.ef.
LoopArgs == Frame(hrs[Len(data) + 1], TRUE, svr, ef)

\* Line 139: the loop calls self.calculate_efficiency(hr, self.svr, self.ef)
\* with the next point of the grid, a NumPy scalar.
LoopCall ==
    /\ pc = "loop"
    /\ fpc = "idle"
    /\ Len(data) < Len(hrs)
    /\ fr' = LoopArgs
    /\ fpc' = "sv"
    /\ UNCHANGED <<appVars, entry, hist>>

\* Lines 140-147: the row is appended; an exception of calculate_efficiency
\* would leave generate_data.
LoopAppend ==
    /\ pc = "loop"
    /\ fpc \in {"returned", "raised"}
    /\ IF fpc = "returned"
       THEN data' = Append(data, Row(fr)) /\ pc' = pc
       ELSE data' = data /\ pc' = "raised"
    /\ fpc' = "idle"
    /\ UNCHANGED <<ef, svr, optimal_row, located, sweeps, prev, entry, fr, hist>>

\* return pd.DataFrame(data), line 149.
GenerateDataReturn ==
    /\ pc = "loop"
    /\ fpc = "idle"
    /\ Len(data) = Len(hrs)
    /\ pc' = "returned"
    /\ UNCHANGED <<ef, svr, data, optimal_row, located, sweeps, prev, entry, fr, fpc, hist>>

\* main, line 192: optimal_row = data.loc[data['efficiency'].idxmax()].
LocateOptimum ==
    /\ pc = "returned"
    /\ LET j == idxmax([n \in 1..Len(data) |-> data[n].efficiency])
       IN  IF j = 0
           THEN optimal_row' = NoRow /\ located' = "error"
           ELSE optimal_row' = data[j] /\ located' = "ok"
    /\ pc' = "done"
    /\ UNCHANGED <<ef, svr, data, sweeps, prev, entry, fr, fpc, hist>>

Init ==
    /\ ef = None /\ svr = None /\ pc = "idle" /\ data = << >>
    /\ optimal_row = NoRow /\ located = "none" /\ sweeps = 0 /\ prev = NoPrev
    /\ entry = "generate_data" /\ fr = NoFrame /\ fpc = "idle" /\ hist = NoHist

Next ==
    \/ \E e \in EfInputs, s \in SvrInputs : Construct(e, s)
    \/ GenerateDataStart
    \/ LoopCall
    \/ LoopAppend
    \/ GenerateDataReturn
    \/ LocateOptimum
    \/ Steps

Spec == Init /\ [][Next]_vars

-----------------------------------------------------------------------------
\* Direct calls of the methods with arguments drawn from the input tables.

CallSv ==
    /\ entry = "none"
    /\ entry' = "calculate_sv"
    /\ fpc' = "sv"
    /\ UNCHANGED <<appVars, fr, hist>>

CallElastances ==
    /\ entry = "none"
    /\ entry' = "calculate_elastances"
    /\ fpc' = "sv"
    /\ UNCHANGED <<appVars, fr, hist>>

CallOptimalWedge ==
    /\ entry = "none"
    /\ entry' = "calculate_optimal_wedge_pressure"
    /\ fpc' = "wedge"
    /\ UNCHANGED <<appVars, fr, hist>>

\* A further call with the same hr and ef and another svr; hist keeps the
\* earlier call.
CallOptimalWedgeAgain(s) ==
    /\ entry = "calculate_optimal_wedge_pressure"
    /\ fpc = "returned"
    /\ hist = NoHist
    /\ hist' = [svr |-> fr.svr, val |-> fr.optimal_wedge, raw |-> fr.raw]
    /\ fr' = Frame(fr.hr, fr.hrNp, s, fr.ef)
    /\ fpc' = "wedge"
    /\ UNCHANGED <<appVars, entry>>

CallEfficiency ==
    /\ entry = "none"
    /\ entry' = "calculate_efficiency"
    /\ fpc' = "sv"
    /\ UNCHANGED <<appVars, fr, hist>>

InitCall ==
    /\ ef = None /\ svr = None /\ pc = "idle" /\ data = << >>
    /\ optimal_row = NoRow /\ located = "none" /\ sweeps = 0 /\ prev = NoPrev
    /\ entry = "none" /\ fpc = "idle" /\ hist = NoHist
    /\ \E h \in CallHrInputs, np \in BOOLEAN, s \in CallSvrInputs, e \in CallEfInputs :
          fr = Frame(h, np, s, e)

NextCall ==
    \/ CallSv
    \/ CallElastances
    \/ CallOptimalWedge
    \/ \E s \in CallSvrInputs : CallOptimalWedgeAgain(s)
    \/ CallEfficiency
    \/ Steps

SpecCall == InitCall /\ [][NextCall]_vars

-----------------------------------------------------------------------------
\* Properties.

Rows == 1..Len(data)

SweepReturned == pc \in {"returned", "done"}

\* C1: the reported optimal point is a row of the table whose efficiency is
\* at least that of every row, and among the rows sharing that maximum it
\* is the one with the lowest heart rate.
C1_OptimalIsFirstMaximum ==
    (pc = "done" /\ located = "ok") =>
        /\ \E n \in Rows : data[n] = optimal_row
        /\ \A n \in Rows : Le(data[n].efficiency, optimal_row.efficiency)
        /\ \A n \in Rows : data[n].efficiency = optimal_row.efficiency
                              => Le(optimal_row.hr, data[n].hr)

\* A table in which several rows share the maximum efficiency.
C1_Witness ==
    /\ pc = "done" /\ located = "ok"
    /\ \E n \in Rows : /\ data[n].hr # optimal_row.hr
                       /\ data[n].efficiency = optimal_row.efficiency

\* C2: a returned table has Samples rows, row n holds the n-th point of the
\* evenly spaced grid (HrMin + n - 1), heart rates ascend strictly, the
\* first is exactly HrMin and the last exactly HrMax.
C2_GridOfTable ==
    SweepReturned =>
        /\ Len(data) = Samples
        /\ \A n \in Rows : data[n].hr = FromInt(HrMin + n - 1)
        /\ \A n \in Rows : n > 1 => Lt(data[n - 1].hr, data[n].hr)
        /\ data[1].hr = FromInt(HrMin)
        /\ data[Len(data)].hr = FromInt(HrMax)

C2_Witness == pc = "returned" /\ Len(data) = Samples /\ sweeps = 1

WedgeAssigned == fr.optimal_wedge # None

WedgeClamped ==
    /\ Le(L5, fr.optimal_wedge) /\ Le(fr.optimal_wedge, L25)
    /\ Lt(fr.raw, L5) => fr.optimal_wedge = L5
    /\ Lt(L25, fr.raw) => fr.optimal_wedge = L25

\* C3 as stated: for every hr, svr and ef the call raises no error and
\* returns a value in [5, 25], a raw value below 5 as 5 and one above 25
\* as 25.
C3_AsStated ==
    /\ fpc # "raised"
    /\ WedgeAssigned => WedgeClamped

\* C3 amended: the same for every hr other than a Python number equal to
\* zero, the only argument on which the call raises (ZeroDivisionError at
\* line 37).
C3_ClampedUnlessPythonZero ==
    /\ fpc = "raised" => (IsZero(fr.hr) /\ ~fr.hrNp)
    /\ (entry = "calculate_optimal_wedge_pressure" /\ fpc = "returned") => WedgeAssigned
    /\ WedgeAssigned => WedgeClamped

\* Two calls with the same hr and ef: one saturated at 5, one at 25.
C3_Witness ==
    /\ entry = "calculate_optimal_wedge_pressure" /\ fpc = "returned"
    /\ hist # NoHist
    /\ Lt(hist.raw, L5) /\ hist.val = L5
    /\ Lt(L25, fr.raw) /\ fr.optimal_wedge = L25

\* C4: for hr > 0, ef in (0, 1] and 0 < svr1 <= svr2 the value returned for
\* svr1 is at most the value returned for svr2, also where the heart-rate
\* factor is negative.
C4_MonotoneInSvr ==
    ( /\ hist # NoHist /\ fpc = "returned"
      /\ Lt(Zero, fr.hr)
      /\ Lt(Zero, fr.ef) /\ Le(fr.ef, One)
      /\ Lt(Zero, hist.svr) /\ Le(hist.svr, fr.svr) )
    => Le(hist.val, fr.optimal_wedge)

\* 40 bpm: the raw product is negative and falls as svr rises.
C4_Witness ==
    /\ hist # NoHist /\ fpc = "returned"
    /\ fr.hr = FromInt(40)
    /\ Lt(Zero, fr.ef) /\ Le(fr.ef, One)
    /\ Lt(Zero, hist.svr) /\ Lt(hist.svr, fr.svr)
    /\ Lt(fr.raw, hist.raw) /\ Lt(hist.raw, Zero)

EfficiencyReturned == entry = "calculate_efficiency" /\ fpc = "returned"

OnGrid(hr) == Le(FromInt(HrMin), hr) /\ Le(hr, FromInt(HrMax))

\* C5 as stated: for ef in (0, 1], svr > 0 and a heart rate of the grid the
\* efficiency is strictly greater than 0 and at most 100, the congestion
\* term being 0.
C5_AsStated ==
    ( /\ EfficiencyReturned
      /\ Lt(Zero, fr.ef) /\ Le(fr.ef, One)
      /\ Lt(Zero, fr.svr)
      /\ OnGrid(fr.hr)
      /\ fr.congestion_penalty = Zero )
    => (Lt(Zero, fr.efficiency) /\ Le(fr.efficiency, L100))

\* C5 amended: for ef in (0, 1], 0 < svr <= 2000 and a heart rate of the
\* grid the efficiency is at least 0 and at most 100 (it is exactly 0 where
\* the Gaussian underflows).
C5_EfficiencyInClosedRange ==
    ( /\ EfficiencyReturned
      /\ Lt(Zero, fr.ef) /\ Le(fr.ef, One)
      /\ Lt(Zero, fr.svr) /\ Le(fr.svr, FromInt(2000))
      /\ OnGrid(fr.hr)
      /\ fr.congestion_penalty = Zero )
    => (Le(Zero, fr.efficiency) /\ Le(fr.efficiency, L100))

\* Slider values for which the efficiency is exactly 0.
C5_Witness ==
    /\ EfficiencyReturned
    /\ fr.ef = Dec(5, 100) /\ fr.svr = FromInt(2000) /\ fr.hr = FromInt(HrMax)
    /\ fr.congestion_penalty = Zero
    /\ fr.efficiency = Zero

InvalidArguments ==
    \/ ~(Lt(Zero, fr.ef) /\ Le(fr.ef, One))
    \/ ~Lt(Zero, fr.svr)
    \/ ~Lt(Zero, fr.hr)

\* C6: calculate_efficiency called with ef outside (0, 1], svr <= 0 or
\* hr <= 0 fails before any formula is evaluated.
C6_RejectsInvalidArguments ==
    (entry = "calculate_efficiency" /\ InvalidArguments) =>
        /\ fpc # "returned"
        /\ fr.sv = None /\ fr.ea = None /\ fr.ees = None
        /\ fr.coupling_ratio = None /\ fr.optimal_wedge = None
        /\ fr.efficiency = None

\* C7: no returned table holds a row computed with a zero stroke volume
\* (a zero divisor of Ea) or a coupling ratio that is not a number.
C7_NoDivisionByZeroRow ==
    SweepReturned =>
        \A n \in Rows : ~IsZero(data[n].sv) /\ ~IsNaN(data[n].coupling_ratio)

\* C8: a sweep never changes self.ef or self.svr, and a sweep that follows
\* a sweep with the same ef and svr (on the same instance or on a new one)
\* returns the same table and the same optimal point.
C8_SweepIsRepeatable ==
    /\ [](( SweepReturned /\ prev # NoPrev ) =>
            (prev.ef = ef /\ prev.svr = svr /\ data = prev.data))
    /\ [](( pc = "done" /\ prev # NoPrev ) => optimal_row = prev.optimal_row)
    /\ [][(pc \in {"ready", "loop", "returned"}) => (<<ef, svr>>' = <<ef, svr>>)]_vars

C8_Witness ==
    /\ pc = "done" /\ located = "ok" /\ sweeps = 2
    /\ prev # NoPrev /\ Len(prev.data) = Samples
    /\ data = prev.data

\* C9: calculate_efficiency evaluates the penalty at the optimal wedge
\* pressure itself, so the deviation is 0, the exponential branch is taken,
\* the congestion term is 0 and the efficiency is
\* mechanical * diastolic * 100.
C9_PenaltyAtOptimum ==
    /\ (entry = "calculate_efficiency" /\ fpc \in {"efficiency", "returned"}) =>
          /\ fr.wedge_arg = fr.optimal_wedge
          /\ fr.deviation = Zero
          /\ fr.branch = "exponential"
          /\ fr.congestion_penalty = Zero
    /\ EfficiencyReturned =>
          fr.efficiency = Mul(Mul(fr.mechanical_efficiency, fr.diastolic_efficiency), L100)

C9_Witness ==
    /\ EfficiencyReturned
    /\ ~IsZero(fr.overall_sensitivity)
    /\ fr.congestion_penalty = Zero
    /\ IsFin(fr.efficiency) /\ ~IsZero(fr.efficiency)

ElastancesAssigned == fr.ees # None

\* C10 as stated: for every hr > 0, svr > 0 and ef in (0, 1] the stroke
\* volume is strictly positive and Ees is not zero.
C10_AsStated ==
    ( /\ ElastancesAssigned
      /\ Lt(Zero, fr.hr) /\ Lt(Zero, fr.svr)
      /\ Lt(Zero, fr.ef) /\ Le(fr.ef, One) )
    => (Lt(Zero, fr.sv) /\ ~IsZero(fr.ees))

\* C10 amended: the same over the slider domain and the sweep grid:
\* 40 <= hr <= 120, 500 <= svr <= 2000, 0.05 <= ef <= 0.75.
C10_NoZeroDivisorOnSliderDomain ==
    ( /\ ElastancesAssigned
      /\ OnGrid(fr.hr)
      /\ Le(FromInt(500), fr.svr) /\ Le(fr.svr, FromInt(2000))
      /\ Le(Dec(5, 100), fr.ef) /\ Le(fr.ef, Dec(75, 100)) )
    => (Lt(Zero, fr.sv) /\ ~IsZero(fr.ees))

C10_Witness ==
    /\ ElastancesAssigned
    /\ fr.hr = FromInt(HrMax) /\ fr.svr = FromInt(2000) /\ fr.ef = Dec(5, 100)
    /\ Lt(Zero, fr.sv) /\ Lt(Zero, fr.ees)

=============================================================================
